---- MODULE Spec2Model ----
(***************************************************************************)
(* MyRentalHost Concierge: the Flask backend (src/app.py) and the WhatsApp *)
(* integration (src/whatsapp_integration.py) as a state machine.           *)
(*                                                                         *)
(* The persisted state is the file system: one folder per apartment under  *)
(* apartments_data/, one history file and one link file per guest under    *)
(* chat_history/, and the phone registry file.  A /chat request is split   *)
(* at its file-system and network operations, so that two requests can     *)
(* interleave the way two WSGI workers do.                                 *)
(*                                                                         *)
(* Timestamps (datetime.now().isoformat()) are left out of the history     *)
(* entries and of the link record: no handler reads them back.             *)
(***************************************************************************)
EXTENDS Integers, Sequences, FiniteSets, TLC

VARIABLES
    dirs,               \* apartment ids that have a folder apartments_data/<id>
    files,              \* files[a]: the filenames stored in apartments_data/<a>
    doc_resp,           \* the last response of a document endpoint
    hist,               \* hist[g]: chat_history/<g>.json (exists, data)
    link,               \* link[g]: apartment_id of chat_history/<g>_info.json, or NoLink
    pc,                 \* pc[p]: where worker p stands in chat()
    req,                \* chat() locals guest_id and message of the request in flight
    apartment_id,       \* chat() local apartment_id: the request's, then the resolved one
    apartment_info,     \* chat() local: the result of load_apartment_info
    chat_history,       \* chat() local: the history list being built
    assistant_message,  \* chat() local: the responder's reply
    responder_called,   \* responder_called[p]: worker p's last request reached the responder
    resp,               \* resp[p]: the last response worker p returned from chat()
    env_verify_token,   \* os.environ WHATSAPP_VERIFY_TOKEN, or Unset
    webhook,            \* the last webhook verification: its arguments and its response
    registry,           \* GuestPhoneRegistry.registry
    registry_exc,       \* the exception the last register_guest call raised, or "none"
    wa                  \* the last process_whatsapp_message call: payload, effects, result

docVars == <<dirs, files, doc_resp>>
chatVars == <<hist, link, pc, req, apartment_id, apartment_info, chat_history,
              assistant_message, responder_called, resp>>
webhookVars == <<env_verify_token, webhook>>
waVars == <<registry, registry_exc, wa>>
vars == <<docVars, chatVars, webhookVars, waVars>>

-----------------------------------------------------------------------------
(* Bounds and input domains *)

\* At most MaxTurns guest messages are accepted per guest between two resets.
MaxTurns == 2

Procs == {1, 2}
Guests == {"g1", "g2"}
Apartments == {"apt-1", "apt-2"}
Messages == {"hello", "bye"}
Replies == {"reply"}

\* A JSON field that is missing, null or empty: falsy in Python.
Absent == ""
\* load_guest_info returns None: the link file does not exist.
NoLink == "<no link file>"

Msg(role, content) == [role |-> role, content |-> content]

IsPrefix(s, t) ==
    /\ Len(s) <= Len(t)
    /\ SubSeq(t, 1, Len(s)) = s

-----------------------------------------------------------------------------
(* Filenames.  A filename is a sequence of characters, so that the          *)
(* extension test and werkzeug's secure_filename are computed on its text.  *)

ALLOWED_EXTENSIONS == { <<"p","d","f">>, <<"d","o","c","x">>, <<"d","o","c">> }

\* str.lower() on the characters the model uses.
LowerChar(c) ==
    CASE c = "N" -> "n"
      [] c = "P" -> "p"
      [] c = "D" -> "d"
      [] c = "F" -> "f"
      [] OTHER -> c

lower(s) == [i \in 1..Len(s) |-> LowerChar(s[i])]

\* The index of the last "." of s, 0 when s has none.
LastDot(s) ==
    LET dots == {i \in 1..Len(s) : s[i] = "."}
    IN  IF dots = {} THEN 0 ELSE CHOOSE i \in dots : \A j \in dots : j <= i

\* filename.rsplit('.', 1)[1]
Extension(s) == SubSeq(s, LastDot(s) + 1, Len(s))

allowed_file(filename) ==
    /\ LastDot(filename) > 0
    /\ lower(Extension(filename)) \in ALLOWED_EXTENSIONS

endswith(s, suffix) ==
    /\ Len(s) >= Len(suffix)
    /\ SubSeq(s, Len(s) - Len(suffix) + 1, Len(s)) = suffix

\* The characters secure_filename keeps: [A-Za-z0-9_.-]
SafeChars == {"a", "b", "c", "d", "e", "f", "n", "o", "p", "x",
              "N", "P", "D", "F", "_", ".", "-"}

\* unicodedata.normalize("NFKD", c).encode("ascii", "ignore"): an accented
\* letter keeps its base letter, a character with no ASCII form is dropped.
AsciiOf(c) ==
    CASE c = "e'" -> <<"e">>
      [] c = "CJK" -> <<>>
      [] OTHER -> <<c>>

RECURSIVE ToAscii(_)
ToAscii(s) ==
    IF s = <<>> THEN <<>> ELSE AsciiOf(Head(s)) \o ToAscii(Tail(s))

\* filename.replace(os.sep, " ")
ReplaceSep(s) == [i \in 1..Len(s) |-> IF s[i] = "/" THEN " " ELSE s[i]]

RECURSIVE LStrip(_, _)
LStrip(s, chars) ==
    IF s # <<>> /\ Head(s) \in chars THEN LStrip(Tail(s), chars) ELSE s

RECURSIVE RStrip(_, _)
RStrip(s, chars) ==
    IF s # <<>> /\ s[Len(s)] \in chars THEN RStrip(SubSeq(s, 1, Len(s) - 1), chars) ELSE s

Strip(s, chars) == RStrip(LStrip(s, chars), chars)

\* A run of blanks inside s becomes one "_".
RECURSIVE CollapseBlanks(_)
CollapseBlanks(s) ==
    IF s = <<>> THEN <<>>
    ELSE IF Head(s) = " "
         THEN IF Len(s) > 1 /\ s[2] = " "
              THEN CollapseBlanks(Tail(s))
              ELSE <<"_">> \o CollapseBlanks(Tail(s))
         ELSE <<Head(s)>> \o CollapseBlanks(Tail(s))

\* "_".join(filename.split())
JoinSplit(s) == CollapseBlanks(Strip(s, {" "}))

secure_filename(filename) ==
    Strip(SelectSeq(JoinSplit(ReplaceSep(ToAscii(filename))),
                    LAMBDA c : c \in SafeChars),
          {".", "_"})

\* The filenames the requests of the model carry.
EmptyName == <<>>
NotesPdf == <<"n", ".", "p", "d", "f">>
UpperPdf == <<"N", ".", "P", "D", "F">>
DotPdf == <<".", "p", "d", "f">>
SpacedDoc == <<"a", " ", "b", ".", "d", "o", "c">>
ParentPdf == <<".", ".", "/", "n", ".", "p", "d", "f">>
AccentDocx == <<"e'", ".", "d", "o", "c", "x">>
Exe == <<"x", ".", "e", "x", "e">>
NoExtension == <<"n">>
Underscore == <<"_">>
BarePdf == <<"p", "d", "f">>

UploadNames == {EmptyName, NotesPdf, UpperPdf, DotPdf, SpacedDoc, ParentPdf,
                AccentDocx, Exe, NoExtension}
DeleteNames == {NotesPdf, UpperPdf, DotPdf, BarePdf, SpacedDoc, Exe, Underscore}

-----------------------------------------------------------------------------
(* Apartment knowledge loader: src/app.py 60-90 *)

NotFound == [found |-> FALSE, apartment_id |-> Absent, documents |-> {}]

\* documents: the files that get a "=== filename ===" section of full_text.
\* The extracted text is the extractor's business; os.listdir's order is not kept.
load_apartment_info(a) ==
    IF a \notin dirs THEN NotFound
    ELSE [found |-> TRUE,
          apartment_id |-> a,
          documents |-> {f \in files[a] :
                            \/ endswith(f, <<".", "p", "d", "f">>)
                            \/ endswith(f, <<".", "d", "o", "c", "x">>)
                            \/ endswith(f, <<".", "d", "o", "c">>)}]

-----------------------------------------------------------------------------
(* Document endpoints: src/app.py 154-223 *)

\* doc_resp: the apartment of the request, and the response's status, error,
\* filename and documents.
DocResp(op, a, status, err, filename, documents) ==
    [op |-> op, apartment_id |-> a, status |-> status, error |-> err,
     filename |-> filename, documents |-> documents]

NoDocResp == DocResp("none", Absent, 0, "", <<>>, {})

ErrNoFilePart == "No se envio ningun archivo"
ErrEmptyName == "Nombre de archivo vacio"
ErrFileType == "Tipo de archivo no permitido"
ErrNoApartment == "Apartamento no encontrado"
ErrNoDocument == "Documento no encontrado"
ErrUnhandled == "Internal Server Error"

\* GET /apartments
list_apartments == dirs

\* GET /apartments/<apartment_id>/documents
list_documents(a) ==
    IF a \notin dirs
    THEN DocResp("list", a, 404, ErrNoApartment, <<>>, {})
    ELSE DocResp("list", a, 200, "", <<>>, {f \in files[a] : allowed_file(f)})

ListDocuments(a) ==
    /\ doc_resp' = list_documents(a)
    /\ UNCHANGED <<dirs, files, chatVars, webhookVars, waVars>>

\* Mutant: the apartment folder is created before the file is validated.
upload_document_mkdir_first(a, has_file, filename) ==
    /\ dirs' = dirs \cup {a}
    /\ IF ~has_file
       THEN /\ doc_resp' = DocResp("upload", a, 400, ErrNoFilePart, <<>>, {})
            /\ UNCHANGED files
       ELSE IF filename = EmptyName
       THEN /\ doc_resp' = DocResp("upload", a, 400, ErrEmptyName, <<>>, {})
            /\ UNCHANGED files
       ELSE IF ~allowed_file(filename)
       THEN /\ doc_resp' = DocResp("upload", a, 400, ErrFileType, <<>>, {})
            /\ UNCHANGED files
       ELSE /\ files' = [files EXCEPT ![a] = @ \cup {secure_filename(filename)}]
            /\ doc_resp' = DocResp("upload", a, 200, "", secure_filename(filename), {})
    /\ UNCHANGED <<chatVars, webhookVars, waVars>>

\* POST /apartments/<apartment_id>/upload; has_file: the form has a 'file' part.
upload_document(a, has_file, filename) ==
    /\ IF ~has_file
       THEN /\ doc_resp' = DocResp("upload", a, 400, ErrNoFilePart, <<>>, {})
            /\ UNCHANGED <<dirs, files>>
       ELSE IF filename = EmptyName
       THEN /\ doc_resp' = DocResp("upload", a, 400, ErrEmptyName, <<>>, {})
            /\ UNCHANGED <<dirs, files>>
       ELSE IF ~allowed_file(filename)
       THEN /\ doc_resp' = DocResp("upload", a, 400, ErrFileType, <<>>, {})
            /\ UNCHANGED <<dirs, files>>
       ELSE /\ dirs' = dirs \cup {a}
            /\ files' = [files EXCEPT ![a] = @ \cup {secure_filename(filename)}]
            /\ doc_resp' = DocResp("upload", a, 200, "", secure_filename(filename), {})
    /\ UNCHANGED <<chatVars, webhookVars, waVars>>

\* os.path.exists(os.path.join(UPLOAD_FOLDER, a, name)): with an empty name the
\* path is the apartment folder itself.
PathExists(a, name) ==
    /\ a \in dirs
    /\ name = <<>> \/ name \in files[a]

\* DELETE /apartments/<apartment_id>/documents/<filename>.  os.remove of the
\* folder raises, which Flask answers with 500.
delete_document(a, filename) ==
    LET name == secure_filename(filename)
    IN  /\ IF ~PathExists(a, name)
           THEN /\ doc_resp' = DocResp("delete", a, 404, ErrNoDocument, <<>>, {})
                /\ UNCHANGED files
           ELSE IF name = <<>>
           THEN /\ doc_resp' = DocResp("delete", a, 500, ErrUnhandled, <<>>, {})
                /\ UNCHANGED files
           ELSE /\ files' = [files EXCEPT ![a] = @ \ {name}]
                /\ doc_resp' = DocResp("delete", a, 200, "", filename, {})
        /\ UNCHANGED <<dirs, chatVars, webhookVars, waVars>>

InitDocsIdle ==
    /\ dirs = {}
    /\ files = [a \in Apartments |-> {}]
    /\ doc_resp = NoDocResp

NextDocs ==
    \/ \E a \in Apartments, f \in UploadNames : upload_document(a, TRUE, f)
    \/ \E a \in Apartments : upload_document(a, FALSE, EmptyName)
    \/ \E a \in Apartments, f \in DeleteNames : delete_document(a, f)
    \/ \E a \in Apartments : ListDocuments(a)

-----------------------------------------------------------------------------
(* GET /whatsapp/webhook: src/app.py 342-354 *)

\* request.args.get returns None.
NoArg == "<none>"
Unset == "<unset>"

DefaultVerifyToken == "myrentalhost_verify_token"

VERIFY_TOKEN ==
    IF env_verify_token = Unset THEN DefaultVerifyToken ELSE env_verify_token

Forbidden == [status |-> 403, body |-> "Forbidden"]

\* Mutant: the token is not compared.
webhook_verify_any_token(mode, token, challenge) ==
    IF mode = "subscribe"
    THEN IF challenge = NoArg
         THEN [status |-> 500, body |-> ErrUnhandled]
         ELSE [status |-> 200, body |-> challenge]
    ELSE Forbidden

\* The response; a view that returns None makes Flask answer 500.
webhook_verify(mode, token, challenge) ==
    IF mode = "subscribe" /\ token = VERIFY_TOKEN
    THEN IF challenge = NoArg
         THEN [status |-> 500, body |-> ErrUnhandled]
         ELSE [status |-> 200, body |-> challenge]
    ELSE Forbidden

whatsapp_webhook(mode, token, challenge) ==
    /\ webhook' = [mode |-> mode, token |-> token, challenge |-> challenge,
                   response |-> webhook_verify(mode, token, challenge)]
    /\ UNCHANGED <<env_verify_token, docVars, chatVars, waVars>>

NoWebhook == [mode |-> NoArg, token |-> NoArg, challenge |-> NoArg,
              response |-> [status |-> 0, body |-> ""]]

Modes == {NoArg, "subscribe", "unsubscribe"}
Tokens == {NoArg, "", DefaultVerifyToken, "s3cret", "wrong"}
Challenges == {NoArg, "1158201444", "challenge-2", "challenge-3"}
EnvTokens == {Unset, "s3cret"}

InitWebhookIdle ==
    /\ env_verify_token = Unset
    /\ webhook = NoWebhook

NextWebhook ==
    \E mode \in Modes, token \in Tokens, challenge \in Challenges :
        whatsapp_webhook(mode, token, challenge)

-----------------------------------------------------------------------------
(* WhatsApp integration: src/whatsapp_integration.py 128-270 *)

Phones == {"34600000001", "34600000002"}
\* apartment_id of a registry entry; it may be empty in the registry file.
RegistryApartments == {"apt-1", Absent}

\* The registry is a dict phone -> {apartment_id, ...}; guest_name and
\* registered_at are never read.
Registries ==
    UNION {[S -> [apartment_id : RegistryApartments]] : S \in SUBSET Phones}

\* Mutant: a phone without an entry resolves to a default apartment.
get_apartment_id_default(phone_number) ==
    IF phone_number \in DOMAIN registry /\ registry[phone_number].apartment_id # Absent
    THEN registry[phone_number].apartment_id
    ELSE "apt-1"

\* None and the empty string are both falsy for the caller.
get_apartment_id(phone_number) ==
    IF phone_number \in DOMAIN registry
    THEN registry[phone_number].apartment_id
    ELSE Absent

\* register_guest builds its entry with datetime.now(), and the module does not
\* import datetime: the call raises NameError before the registry changes.
register_guest(phone_number, apt) ==
    /\ registry_exc' = "NameError"
    /\ UNCHANGED <<registry, wa, docVars, chatVars, webhookVars>>

unregister_guest(phone_number) ==
    /\ registry' = IF phone_number \in DOMAIN registry
                   THEN [ph \in DOMAIN registry \ {phone_number} |-> registry[ph]]
                   ELSE registry
    /\ UNCHANGED <<registry_exc, wa, docVars, chatVars, webhookVars>>

ReplyUnsupported == "Lo siento, solo puedo procesar mensajes de texto por el momento."
ReplyNotRegistered == "Para poder ayudarte, necesito saber en que apartamento te alojas."
ReplyTechnical == "Disculpa, estoy teniendo problemas tecnicos."

\* The webhook payloads: a payload without entry/changes/value, one without
\* messages, or one whose first message has from, id, type and, for a text
\* message, text.body.
Payloads ==
    {[shape |-> "malformed", from |-> Absent, type |-> Absent, body |-> Absent],
     [shape |-> "no_messages", from |-> Absent, type |-> Absent, body |-> Absent]}
    \cup [shape : {"message"}, from : Phones, type : {"image"}, body : {Absent}]
    \cup [shape : {"message"}, from : Phones, type : {"text"}, body : {"hola"}]

\* What POST <concierge_api_url>/chat does: it answers 200 with a reply,
\* answers with an error status, or the request raises.
ChatOutcomes == {"ok", "not_ok", "raises"}

WaResult(payload, status, sent, marked_read, chat_calls) ==
    [payload |-> payload, status |-> status, sent |-> sent,
     marked_read |-> marked_read, chat_calls |-> chat_calls]

Sent(to, body) == [to |-> to, body |-> body]

process_whatsapp_message(payload, outcome) ==
    /\ wa' =
        IF payload.shape = "malformed"
        THEN WaResult(payload, "error", <<>>, FALSE, <<>>)
        ELSE IF payload.shape = "no_messages"
        THEN WaResult(payload, "no_message", <<>>, FALSE, <<>>)
        ELSE IF payload.type # "text"
        THEN WaResult(payload, "unsupported_type",
                      << Sent(payload.from, ReplyUnsupported) >>, FALSE, <<>>)
        ELSE IF get_apartment_id(payload.from) = Absent
        THEN WaResult(payload, "guest_not_registered",
                      << Sent(payload.from, ReplyNotRegistered) >>, TRUE, <<>>)
        ELSE LET call == [guest_id |-> payload.from,
                          apartment_id |-> get_apartment_id(payload.from),
                          message |-> payload.body]
             IN  CASE outcome = "ok" ->
                        WaResult(payload, "success",
                                 << Sent(payload.from, "reply") >>, TRUE, <<call>>)
                   [] outcome = "not_ok" ->
                        WaResult(payload, "api_error",
                                 << Sent(payload.from, ReplyTechnical) >>, TRUE, <<call>>)
                   [] OTHER ->
                        WaResult(payload, "error", <<>>, TRUE, <<call>>)
    /\ UNCHANGED <<registry, registry_exc, docVars, chatVars, webhookVars>>

NoWa == WaResult([shape |-> "none", from |-> Absent, type |-> Absent, body |-> Absent],
                 "none", <<>>, FALSE, <<>>)

InitWhatsAppIdle ==
    /\ registry = << >>
    /\ registry_exc = "none"
    /\ wa = NoWa

NextWhatsApp ==
    \/ \E payload \in Payloads, outcome \in ChatOutcomes :
            process_whatsapp_message(payload, outcome)
    \/ \E ph \in Phones, a \in Apartments : register_guest(ph, a)
    \/ \E ph \in Phones : unregister_guest(ph)

-----------------------------------------------------------------------------
(* Session store: src/app.py 116-147 *)

NoHistoryFile == [exists |-> FALSE, data |-> <<>>]

\* Mutant: the stored history is never read back.
get_chat_history_forgets(g) == <<>>

get_chat_history(g) ==
    IF hist[g].exists THEN hist[g].data ELSE <<>>

\* Mutant: the file is opened in append mode, the old entries stay in front.
save_chat_history_appends(h, g, history) ==
    [h EXCEPT ![g] = [exists |-> TRUE, data |-> h[g].data \o history]]

\* The files after save_chat_history(g, history): a full overwrite of g's file.
save_chat_history(h, g, history) ==
    [h EXCEPT ![g] = [exists |-> TRUE, data |-> history]]

save_guest_info(l, g, a) ==
    [l EXCEPT ![g] = a]

\* Mutant: a guest without a link file gets a default apartment.
load_guest_info_default(g) == IF link[g] = NoLink THEN "apt-1" ELSE link[g]

load_guest_info(g) == link[g]

-----------------------------------------------------------------------------
(* Responses of chat() *)

NoResp == [status |-> 0, error |-> "", response |-> "", apartment_id |-> "", guest_id |-> ""]

ErrResp(code, err) ==
    [status |-> code, error |-> err, response |-> "", apartment_id |-> "", guest_id |-> ""]

ErrRequired == "guest_id y message son requeridos"
ErrMissingApartment == "apartment_id es requerido para nuevos huespedes"
ErrUnknownApartment == "No se encontro informacion para el apartamento"
ErrProcessing == "Error al procesar la solicitud"

OkResp(r, a, g) ==
    [status |-> 200, error |-> "", response |-> r, apartment_id |-> a, guest_id |-> g]

NoReq == [guest_id |-> Absent, message |-> Absent]

-----------------------------------------------------------------------------
(* POST /chat: src/app.py 225-309, one worker p per request in flight *)

Idle(p) == pc[p] = "idle"

\* No worker is handling a request.
AllIdle == \A q \in Procs : Idle(q)

\* The request and the locals of chat() are gone once it has returned.
Return(p, response) ==
    /\ pc' = [pc EXCEPT ![p] = "idle"]
    /\ resp' = [resp EXCEPT ![p] = response]
    /\ req' = [req EXCEPT ![p] = NoReq]
    /\ apartment_id' = [apartment_id EXCEPT ![p] = Absent]
    /\ apartment_info' = [apartment_info EXCEPT ![p] = NotFound]
    /\ chat_history' = [chat_history EXCEPT ![p] = <<>>]
    /\ assistant_message' = [assistant_message EXCEPT ![p] = Absent]

\* The request goes on to load_apartment_info.
Accept(p, g, m) ==
    /\ pc' = [pc EXCEPT ![p] = "load_apartment"]
    /\ req' = [req EXCEPT ![p] = [guest_id |-> g, message |-> m]]

\* Lines 235-253: read the body, validate it, resolve the apartment id and
\* persist the link when the request supplies one.
chat_resolve(p, g, a, m) ==
    /\ Idle(p)
    /\ responder_called' = [responder_called EXCEPT ![p] = FALSE]
    /\ IF g = Absent \/ m = Absent
       THEN /\ Return(p, ErrResp(400, ErrRequired))
            /\ UNCHANGED <<hist, link>>
       ELSE IF a = Absent
       THEN IF load_guest_info(g) # NoLink
            THEN /\ Accept(p, g, m)
                 /\ apartment_id' = [apartment_id EXCEPT ![p] = load_guest_info(g)]
                 /\ UNCHANGED <<hist, link, resp, apartment_info, chat_history,
                                assistant_message>>
            ELSE /\ Return(p, ErrResp(400, ErrMissingApartment))
                 /\ UNCHANGED <<hist, link>>
       ELSE /\ link' = save_guest_info(link, g, a)
            /\ Accept(p, g, m)
            /\ apartment_id' = [apartment_id EXCEPT ![p] = a]
            /\ UNCHANGED <<hist, resp, apartment_info, chat_history, assistant_message>>
    /\ UNCHANGED <<docVars, webhookVars, waVars>>

\* Lines 255-259: load the apartment's knowledge, 404 when it has no folder.
chat_load_apartment(p) ==
    /\ pc[p] = "load_apartment"
    /\ LET info == load_apartment_info(apartment_id[p])
       IN  IF ~info.found
           THEN Return(p, ErrResp(404, ErrUnknownApartment))
           ELSE /\ pc' = [pc EXCEPT ![p] = "read_history"]
                /\ apartment_info' = [apartment_info EXCEPT ![p] = info]
                /\ UNCHANGED <<resp, req, apartment_id, chat_history, assistant_message>>
    /\ UNCHANGED <<hist, link, responder_called, docVars, webhookVars, waVars>>

\* Mutant: the guest's message is not appended to the list that was read.
chat_read_history_skips_message(p) ==
    /\ pc[p] = "read_history"
    /\ chat_history' = [chat_history EXCEPT ![p] = get_chat_history(req[p].guest_id)]
    /\ pc' = [pc EXCEPT ![p] = "call_responder"]
    /\ UNCHANGED <<hist, link, req, apartment_id, apartment_info, assistant_message,
                   responder_called, resp, docVars, webhookVars, waVars>>

\* Lines 261-269: read the persisted history and append the guest's message.
chat_read_history(p) ==
    /\ pc[p] = "read_history"
    /\ chat_history' = [chat_history EXCEPT ![p] =
            Append(get_chat_history(req[p].guest_id), Msg("user", req[p].message))]
    /\ pc' = [pc EXCEPT ![p] = "call_responder"]
    /\ UNCHANGED <<hist, link, req, apartment_id, apartment_info, assistant_message,
                   responder_called, resp, docVars, webhookVars, waVars>>

\* Lines 276-280: the (role, content) pairs of the user and assistant entries.
api_messages(history) ==
    SelectSeq(history, LAMBDA msg : msg.role \in {"user", "assistant"})

\* Mutant: the except branch saves the history with the guest's message.
chat_call_responder_keeps_turn(p) ==
    /\ pc[p] = "call_responder"
    /\ responder_called' = [responder_called EXCEPT ![p] = TRUE]
    /\ \/ \E r \in Replies :
            /\ assistant_message' = [assistant_message EXCEPT ![p] = r]
            /\ pc' = [pc EXCEPT ![p] = "save_history"]
            /\ UNCHANGED <<hist, resp, req, apartment_id, apartment_info, chat_history>>
       \/ /\ Return(p, ErrResp(500, ErrProcessing))
          /\ hist' = save_chat_history(hist, req[p].guest_id, chat_history[p])
    /\ UNCHANGED <<link, docVars, webhookVars, waVars>>

\* Lines 272-289 and 307-309: one call of the responder.  It answers with some
\* reply, or the call raises and the handler returns the generic 500.
chat_call_responder(p) ==
    /\ pc[p] = "call_responder"
    /\ responder_called' = [responder_called EXCEPT ![p] = TRUE]
    /\ \/ \E r \in Replies :
            /\ assistant_message' = [assistant_message EXCEPT ![p] = r]
            /\ pc' = [pc EXCEPT ![p] = "save_history"]
            /\ UNCHANGED <<resp, req, apartment_id, apartment_info, chat_history>>
       \/ Return(p, ErrResp(500, ErrProcessing))
    /\ UNCHANGED <<hist, link, docVars, webhookVars, waVars>>

\* Mutant: the reply is returned but never appended to the history.
chat_save_history_drops_reply(p) ==
    /\ pc[p] = "save_history"
    /\ hist' = save_chat_history(hist, req[p].guest_id, chat_history[p])
    /\ Return(p, OkResp(assistant_message[p], apartment_id[p], req[p].guest_id))
    /\ UNCHANGED <<link, responder_called, docVars, webhookVars, waVars>>

\* Lines 291-305: append the reply, overwrite the history file, return 200.
chat_save_history(p) ==
    /\ pc[p] = "save_history"
    /\ hist' = save_chat_history(hist, req[p].guest_id,
                    Append(chat_history[p], Msg("assistant", assistant_message[p])))
    /\ Return(p, OkResp(assistant_message[p], apartment_id[p], req[p].guest_id))
    /\ UNCHANGED <<link, responder_called, docVars, webhookVars, waVars>>

\* GET /chat/<guest_id>/history: src/app.py 311-321
get_history(g) ==
    [guest_id |-> g,
     apartment_id |-> load_guest_info(g),
     history |-> get_chat_history(g)]

\* Mutant: the reset removes the guest's link file as well.
reset_chat_forgets_guest(g) ==
    /\ hist' = IF hist[g].exists THEN [hist EXCEPT ![g] = NoHistoryFile] ELSE hist
    /\ link' = [link EXCEPT ![g] = NoLink]
    /\ UNCHANGED <<pc, req, apartment_id, apartment_info, chat_history,
                   assistant_message, responder_called, resp,
                   docVars, webhookVars, waVars>>

\* POST /chat/<guest_id>/reset: src/app.py 323-333
reset_chat(g) ==
    /\ hist' = IF hist[g].exists THEN [hist EXCEPT ![g] = NoHistoryFile] ELSE hist
    /\ UNCHANGED <<link, pc, req, apartment_id, apartment_info, chat_history,
                   assistant_message, responder_called, resp,
                   docVars, webhookVars, waVars>>

\* The requests the model sends to /chat.
ChatGuests == Guests \cup {Absent}
ChatApartments == Apartments \cup {Absent}
ChatMessages == Messages \cup {Absent}

\* The guest has sent fewer than MaxTurns messages since the last reset.
MayChat(g) == g \in Guests => Len(get_chat_history(g)) < 2 * MaxTurns

ChatStep(p) ==
    \/ chat_load_apartment(p)
    \/ MayChat(req[p].guest_id) /\ chat_read_history(p)
    \/ chat_call_responder(p)
    \/ chat_save_history(p)

\* Requests are handled one at a time: a request is taken up, by either
\* worker, only when no other request is in flight.
NextSerial ==
    \/ \E p \in Procs, g \in ChatGuests, a \in ChatApartments, m \in ChatMessages :
            MayChat(g) /\ AllIdle /\ chat_resolve(p, g, a, m)
    \/ \E p \in Procs : ChatStep(p)
    \/ \E g \in Guests : AllIdle /\ reset_chat(g)

\* The racing requests: two workers, all for one guest.
RaceGuests == {"g1"}

\* Requests interleave freely, each file read and write atomic.
NextConcurrent ==
    \/ \E p \in Procs, g \in RaceGuests, a \in ChatApartments, m \in ChatMessages :
            MayChat(g) /\ chat_resolve(p, g, a, m)
    \/ \E p \in Procs : ChatStep(p)
    \/ \E g \in RaceGuests : reset_chat(g)

InitChatIdle ==
    /\ hist = [g \in Guests |-> NoHistoryFile]
    /\ link = [g \in Guests |-> NoLink]
    /\ pc = [p \in Procs |-> "idle"]
    /\ req = [p \in Procs |-> NoReq]
    /\ apartment_id = [p \in Procs |-> Absent]
    /\ apartment_info = [p \in Procs |-> NotFound]
    /\ chat_history = [p \in Procs |-> <<>>]
    /\ assistant_message = [p \in Procs |-> Absent]
    /\ responder_called = [p \in Procs |-> FALSE]
    /\ resp = [p \in Procs |-> NoResp]

\* The chat specifications start with the documents of apt-1 uploaded and no
\* folder for apt-2.
InitChat ==
    /\ InitChatIdle
    /\ dirs = {"apt-1"}
    /\ files = [a \in Apartments |-> IF a = "apt-1" THEN {NotesPdf} ELSE {}]
    /\ doc_resp = NoDocResp
    /\ InitWebhookIdle
    /\ InitWhatsAppIdle

Spec == InitChat /\ [][NextSerial]_vars

SpecConcurrent == InitChat /\ [][NextConcurrent]_vars

\* The document endpoints, from an empty apartments_data/.
InitDocs ==
    /\ InitDocsIdle
    /\ InitChatIdle
    /\ InitWebhookIdle
    /\ InitWhatsAppIdle

SpecDocs == InitDocs /\ [][NextDocs]_vars

\* The webhook verification, with the verify token configured or left unset.
InitWebhook ==
    /\ env_verify_token \in EnvTokens
    /\ webhook = NoWebhook
    /\ InitDocsIdle
    /\ InitChatIdle
    /\ InitWhatsAppIdle

SpecWebhook == InitWebhook /\ [][NextWebhook]_vars

\* The WhatsApp message processing, over every content of the registry file.
InitWhatsApp ==
    /\ registry \in Registries
    /\ registry_exc = "none"
    /\ wa = NoWa
    /\ InitDocsIdle
    /\ InitChatIdle
    /\ InitWebhookIdle

SpecWhatsApp == InitWhatsApp /\ [][NextWhatsApp]_vars

-----------------------------------------------------------------------------
(* Properties of the chat endpoints *)

\* Worker p returns from chat() in this step.
Returns(p) == pc[p] # "idle" /\ pc'[p] = "idle"

\* Some step of a chat request, from its arrival to its response.
ChatRequestStep ==
    \E p \in Procs :
        \/ ChatStep(p)
        \/ \E g \in ChatGuests, a \in ChatApartments, m \in ChatMessages :
                chat_resolve(p, g, a, m)

\* C1: a chat request without apartment_id for a guest that has no link file
\* returns 400 in its first step, with the missing-apartment error whenever
\* the message is present; the responder is not called, and no history and no
\* link is written.
C1_MissingApartmentFails ==
    [][\A p \in Procs, g \in Guests, m \in ChatMessages :
            (link[g] = NoLink /\ chat_resolve(p, g, Absent, m))
            => /\ pc'[p] = "idle"
               /\ resp'[p].status = 400
               /\ m # Absent => resp'[p] = ErrResp(400, ErrMissingApartment)
               /\ ~responder_called'[p]
               /\ hist' = hist
               /\ ~hist'[g].exists => get_history(g)'.history = <<>>
               /\ link'[g] = NoLink]_vars

C1_Witness ==
    \E p \in Procs, g \in Guests :
        /\ Idle(p)
        /\ resp[p] = ErrResp(400, ErrMissingApartment)
        /\ ~responder_called[p]
        /\ link[g] = NoLink
        /\ ~hist[g].exists

\* C2: with requests handled one at a time, nothing but the request's own save
\* changes the guest's history while the request is in flight, and when the
\* request returns 200 the history get_history reports is the one from before,
\* followed by the guest entry with the message and one assistant entry with
\* the reply returned.
C2_SuccessAppendsTurn ==
    [][\A p \in Procs, g \in Guests :
            (~Idle(p) /\ req[p].guest_id = g)
            => /\ ~Returns(p) => hist'[g] = hist[g]
               /\ (Returns(p) /\ resp'[p].status = 200)
                  => get_history(g)'.history =
                        get_history(g).history \o
                            << Msg("user", req[p].message),
                               Msg("assistant", resp'[p].response) >>]_vars

C2_Witness ==
    \E p \in Procs :
        /\ Idle(p)
        /\ resp[p] = OkResp("reply", "apt-1", "g1")
        /\ get_history("g1").history =
                << Msg("user", "hello"), Msg("assistant", "reply"),
                   Msg("user", "bye"), Msg("assistant", "reply") >>

\* C3 as claimed: after a responder failure the persisted history is the one
\* from before followed by the guest's message of this request, and no
\* assistant entry.
C3_GuestMessageKept ==
    [][\A p \in Procs :
            (Returns(p) /\ resp'[p].status = 500)
            => hist'[req[p].guest_id].data =
                    Append(hist[req[p].guest_id].data, Msg("user", req[p].message))]_vars

\* C3 as amended: a responder failure returns the generic 500 and leaves every
\* history file as it was, so neither the guest's message of this request
\* nor an assistant entry is persisted.
C3_FailurePersistsNothing ==
    [][\A p \in Procs :
            (pc[p] = "call_responder" /\ Returns(p))
            => /\ resp'[p] = ErrResp(500, ErrProcessing)
               /\ hist' = hist]_vars

C3_Witness ==
    \E p \in Procs :
        /\ Idle(p)
        /\ resp[p] = ErrResp(500, ErrProcessing)
        /\ responder_called[p]
        /\ \E g \in Guests : link[g] # NoLink /\ ~hist[g].exists

\* C4: right after reset_chat(g), get_history(g) reports an empty history and
\* the apartment id it reported before the reset; no link file changes.
C4_ResetKeepsLink ==
    [][\A g \in Guests :
            reset_chat(g)
            => /\ get_history(g)'.history = <<>>
               /\ get_history(g)'.apartment_id = get_history(g).apartment_id
               /\ link' = link]_vars

\* A guest answered with 200 whose history file is gone: it was reset.
C4_Witness ==
    \E p \in Procs, g \in Guests :
        /\ resp[p].status = 200
        /\ resp[p].guest_id = g
        /\ \A q \in Procs \ {p} : resp[q].guest_id # g
        /\ Idle(p)
        /\ get_history(g) = [guest_id |-> g, apartment_id |-> "apt-1", history |-> <<>>]

\* C5: a successful request overwrites the history file with the list it read
\* earlier plus its own turn, whatever the file holds by then: a turn another
\* request saved in between is lost, and both requests return 200.
C5_LastWriterWins ==
    [][\A p \in Procs :
            (pc[p] = "save_history" /\ Returns(p))
            => /\ resp'[p].status = 200
               /\ hist'[req[p].guest_id].data =
                    Append(chat_history[p], Msg("assistant", resp'[p].response))]_vars

\* Worker 2 has returned 200 and its turn is on file; worker 1, which read the
\* history before that, is about to overwrite the file without it.
C5_Witness ==
    /\ pc[1] = "save_history"
    /\ req[1].guest_id = "g1"
    /\ chat_history[1] = << Msg("user", "hello") >>
    /\ Idle(2)
    /\ resp[2] = OkResp("reply", "apt-1", "g1")
    /\ hist["g1"].data = << Msg("user", "bye"), Msg("assistant", "reply") >>

\* C6: with requests handled one at a time, every step of a chat request
\* leaves each persisted history a prefix of what is persisted after the step.
C6_ChatOnlyAppends ==
    [][ChatRequestStep
        => \A g \in Guests : IsPrefix(hist[g].data, hist'[g].data)]_vars

C6_Witness ==
    \E g \in Guests :
        /\ Len(hist[g].data) = 4
        /\ hist[g].data[1].content # hist[g].data[3].content

-----------------------------------------------------------------------------
(* Properties of the webhook verification *)

\* C7: a verification answered with 200 had the configured token and carries
\* the challenge; a request whose token differs from the configured one is
\* answered with 403 Forbidden.
C7_ChallengeOnlyForToken ==
    webhook.response.status # 0
    => /\ webhook.token # VERIFY_TOKEN => webhook.response = Forbidden
       /\ webhook.response.status = 200
          => /\ webhook.token = VERIFY_TOKEN
             /\ webhook.response.body = webhook.challenge

C7_Witness ==
    /\ webhook.mode = "subscribe"
    /\ webhook.token = DefaultVerifyToken
    /\ env_verify_token = "s3cret"
    /\ webhook.challenge = "1158201444"
    /\ webhook.response = Forbidden

-----------------------------------------------------------------------------
(* Properties of the document endpoints *)

\* The filenames upload accepts, and the names it stores them under.
AcceptedNames == {f \in UploadNames : f # EmptyName /\ allowed_file(f)}
RejectedNames == {EmptyName, Exe, NoExtension}

\* C8: for a filename upload accepts, the listing right after a successful
\* upload includes the filename the upload stored; the listing right after
\* deleting that file does not include it; deleting a file that is not
\* present returns 404 and changes nothing.
C8_UploadListDelete ==
    [][\A a \in Apartments, f \in AcceptedNames :
            /\ (upload_document(a, TRUE, f) /\ doc_resp'.status = 200)
               => doc_resp'.filename \in list_documents(a)'.documents
            /\ (delete_document(a, secure_filename(f)) /\ doc_resp'.status = 200)
               => secure_filename(f) \notin list_documents(a)'.documents
            /\ (delete_document(a, secure_filename(f)) /\ ~PathExists(a, secure_filename(f)))
               => /\ doc_resp'.status = 404
                  /\ dirs' = dirs
                  /\ files' = files]_vars

\* C9: an upload whose filename is empty, has no extension or has the
\* extension exe returns 400 and leaves folders and files as they were; an
\* apartment that had no folder is still reported not found by the listing.
C9_RejectedUploadNoEffect ==
    [][\A a \in Apartments, f \in RejectedNames :
            upload_document(a, TRUE, f)
            => /\ doc_resp'.status = 400
               /\ dirs' = dirs
               /\ files' = files
               /\ a \notin dirs => list_documents(a)'.status = 404]_vars

C9_Witness ==
    /\ doc_resp.op = "upload"
    /\ doc_resp.status = 400
    /\ doc_resp.error = ErrFileType
    /\ doc_resp.apartment_id \notin dirs
    /\ dirs # {}

-----------------------------------------------------------------------------
(* Properties of the WhatsApp message processing *)

\* C10: process_whatsapp_message calls the chat API only for a text message
\* whose sender has a non-empty apartment in the registry; for a non-text
\* message, and for a text message whose sender has no registry entry, it
\* sends the sender exactly one fixed reply, makes no chat call and returns
\* unsupported_type, respectively guest_not_registered.
C10_ChatOnlyForRegisteredText ==
    [][\A payload \in Payloads, outcome \in ChatOutcomes :
            process_whatsapp_message(payload, outcome)
            => /\ wa'.chat_calls # <<>>
                  => /\ payload.shape = "message"
                     /\ payload.type = "text"
                     /\ payload.from \in DOMAIN registry
                     /\ registry[payload.from].apartment_id # Absent
               /\ (payload.shape = "message" /\ payload.type # "text")
                  => /\ wa'.sent = << Sent(payload.from, ReplyUnsupported) >>
                     /\ wa'.chat_calls = <<>>
                     /\ wa'.status = "unsupported_type"
               /\ (payload.shape = "message" /\ payload.type = "text"
                        /\ payload.from \notin DOMAIN registry)
                  => /\ wa'.sent = << Sent(payload.from, ReplyNotRegistered) >>
                     /\ wa'.chat_calls = <<>>
                     /\ wa'.status = "guest_not_registered"]_vars

C10_Witness ==
    /\ wa.payload.shape = "message"
    /\ wa.payload.type = "text"
    /\ wa.payload.from \notin DOMAIN registry
    /\ wa.status = "guest_not_registered"
    /\ Len(wa.sent) = 1
    /\ wa.chat_calls = <<>>
    /\ \E ph \in DOMAIN registry : registry[ph].apartment_id = "apt-1"

-----------------------------------------------------------------------------
(* Properties of the persisted state as a whole *)

\* The entries are guest, assistant, guest, ... beginning with a guest entry.
Alternates(history) ==
    \A i \in 1..Len(history) :
        history[i].role = IF i % 2 = 1 THEN "user" ELSE "assistant"

\* C11: in every state, with chat and reset requests for the same guest
\* interleaved at their file operations, every history file holds an even
\* number of entries that alternate guest and assistant beginning with a
\* guest entry; and the message list a worker sends to the responder
\* alternates the same way and ends with the guest message of its request.
C11_HistoriesAlternate ==
    /\ \A g \in Guests :
            /\ Len(hist[g].data) % 2 = 0
            /\ Alternates(hist[g].data)
            /\ get_chat_history(g) = hist[g].data
    /\ \A p \in Procs :
            pc[p] = "call_responder"
            => LET sent == api_messages(chat_history[p])
               IN  /\ Alternates(sent)
                   /\ Len(sent) % 2 = 1
                   /\ sent[Len(sent)] = Msg("user", req[p].message)

\* Worker p is about to send a three-entry list for g1 although the file it
\* read has been reset since, and the other worker holds a reply for g1 that
\* it is about to save.
C11_Witness ==
    \E p \in Procs, q \in Procs :
        /\ p # q
        /\ pc[p] = "call_responder"
        /\ req[p].guest_id = "g1"
        /\ Len(chat_history[p]) = 3
        /\ ~hist["g1"].exists
        /\ pc[q] = "save_history"
        /\ req[q].guest_id = "g1"

\* C12 as claimed: a chat request that returns an error result leaves every
\* link file as it was before the request.  Requests run one at a time here
\* and no apartment folder changes, so the request's first step already
\* decides a 400 or a 404: the 400 is returned in that step, and the 404
\* follows for an apartment id that load_apartment_info does not find.  The
\* link as it was before the request is the one before that first step; the
\* steps that return the 404 or the 500 are covered by the second conjunct.
C12_ErrorKeepsLink ==
    [][\A p \in Procs :
            /\ \A g \in ChatGuests, a \in ChatApartments, m \in ChatMessages :
                    (/\ chat_resolve(p, g, a, m)
                     /\ \/ pc'[p] = "idle" /\ resp'[p].status = 400
                        \/ /\ pc'[p] = "load_apartment"
                           /\ ~load_apartment_info(apartment_id'[p]).found)
                    => link' = link
            /\ (Returns(p) /\ resp'[p].status \in {400, 404, 500})
               => link' = link]_vars

-----------------------------------------------------------------------------
(* Properties relating the document endpoints and the knowledge loader *)

\* C13 as claimed: for every apartment folder and every file stored in it,
\* list_documents reports the file exactly when load_apartment_info gives it
\* a section of the knowledge text.
C13_ListingMatchesKnowledge ==
    \A a \in dirs : \A f \in files[a] :
        f \in list_documents(a).documents <=> f \in load_apartment_info(a).documents

====
